---- MODULE Spec2Model ----
(***************************************************************************)
(* Model of deploy.py: a script that configures logging, builds one        *)
(* Service descriptor out of literal values and submits it with            *)
(* service.deploy(workspace_fqn=..., wait=False).                          *)
(*                                                                         *)
(* The script is straight-line code.  Its statements and the sub-          *)
(* expressions of the Service(...) call are modelled one per action, in    *)
(* Python's evaluation order (arguments left to right, inner calls before  *)
(* the call that takes them), on an evaluation stack.  The deployment      *)
(* client and the remote control plane are the environment: the client     *)
(* may log, raise one of its errors or get the request accepted; the       *)
(* remote rollout then advances on its own, or never does.                 *)
(***************************************************************************)
EXTENDS Integers, Sequences, FiniteSets, TLC

VARIABLES
    pc,          \* position of the script
    rootLevel,   \* level of the root logger
    rootHandlers,\* streams of the root logger's handlers, in order
    streams,     \* records written so far to stdout and to stderr
    emitted,     \* number of records the client has logged
    stack,       \* evaluation stack of the Service(...) expression
    service,     \* the module-level name `service`
    calls,       \* invocations of deploy, in order
    raised,      \* the exception in flight, or NoError
    exitExc,     \* what the interpreter terminated with
    remote       \* the control plane's view of the submission

vars == <<pc, rootLevel, rootHandlers, streams, emitted, stack, service,
          calls, raised, exitExc, remote>>

\* ---------------------------------------------------------------- bounds

\* Log records the client may emit during one deploy call.
MaxRecords == 3

\* ------------------------------------------------------------ python bits

None == [type |-> "NoneType"]

NoError == "NoError"

\* A Python float or int literal, kept exact as a fraction.
Num(n, d) == [num |-> n, den |-> d]

\* a = b and a <= b on fractions with positive denominators.
NumEq(a, b) == a.num * b.den = b.num * a.den

NumLeq(a, b) == a.num * b.den <= b.num * a.den

Push(s, v) == Append(s, v)

Top(s) == s[Len(s)]

Pop(s, n) == SubSeq(s, 1, Len(s) - n)

\* ---------------------------------------------------------------- logging

Levels == <<"DEBUG", "INFO", "WARNING">>

LevelNo(l) == CASE l = "DEBUG" -> 10
                [] l = "INFO" -> 20
                [] l = "WARNING" -> 30

\* Before basicConfig the root logger is at WARNING and has no handler.
DefaultRootLevel == "WARNING"

\* logging.INFO, the level= argument of line 12.
LevelArg == "INFO"

\* Mutant: basicConfig(level=logging.INFO, stream=sys.stdout).
StreamArgStdout == [name |-> "stdout"]

\* Line 12 passes neither stream= nor filename= nor handlers=: basicConfig
\* then creates StreamHandler(None), whose stream is sys.stderr.
StreamArg == None

HandlerStream(stream) == IF stream = None THEN "stderr" ELSE stream.name

\* The streams a record of level l is written to: the handlers of the root
\* logger when the level passes; with no handler at all, logging's last
\* resort writes WARNING and above to stderr.
Destinations(l) ==
    IF LevelNo(l) < LevelNo(rootLevel) THEN <<>>
    ELSE IF rootHandlers # <<>> THEN rootHandlers
    ELSE IF LevelNo(l) >= LevelNo("WARNING") THEN <<"stderr">>
    ELSE <<>>

Written(dest, l) ==
    [s \in DOMAIN streams |->
        IF \E i \in 1..Len(dest) : dest[i] = s
        THEN Append(streams[s], l) ELSE streams[s]]

\* ------------------------------------------------------------------ init

Init ==
    /\ pc = "import"
    /\ rootLevel = DefaultRootLevel
    /\ rootHandlers = <<>>
    /\ streams = [stdout |-> <<>>, stderr |-> <<>>]
    /\ emitted = 0
    /\ stack = <<>>
    /\ service = None
    /\ calls = <<>>
    /\ raised = NoError
    /\ exitExc = NoError
    /\ remote = [status |-> "none", descriptor |-> None, workspace |-> ""]

\* ------------------------------------------------- the script, line by line

\* Lines 1-10: the imports.
Import ==
    /\ pc = "import"
    /\ pc' = "basicConfig"
    /\ UNCHANGED <<rootLevel, rootHandlers, streams, emitted, stack, service,
                   calls, raised, exitExc, remote>>

\* Line 12: logging.basicConfig(level=logging.INFO).  It does nothing when
\* the root logger already has handlers.
BasicConfig ==
    /\ pc = "basicConfig"
    /\ IF rootHandlers = <<>>
       THEN /\ rootHandlers' = <<HandlerStream(StreamArg)>>
            /\ rootLevel' = LevelArg
       ELSE UNCHANGED <<rootHandlers, rootLevel>>
    /\ pc' = "LocalSource"
    /\ UNCHANGED <<streams, emitted, stack, service, calls, raised, exitExc,
                   remote>>

\* ------------------------------------------------ the values constructed

\* Line 17: LocalSource().
LocalSource == [type |-> "LocalSource"]

\* Lines 18-20.
DockerFileBuild ==
    [type |-> "DockerFileBuild",
     dockerfile_path |-> "./Dockerfile",
     build_context_path |-> "./"]

\* Lines 16-21.
Build(build_source, build_spec) ==
    [type |-> "Build", build_source |-> build_source, build_spec |-> build_spec]

\* Line 29: NodeSelector().
NodeSelector == [type |-> "NodeSelector"]

\* Mutant: a CPU request above the CPU limit.
ResourcesOverLimit(node) ==
    [type |-> "Resources",
     cpu_request |-> Num(1, 1),
     cpu_limit |-> Num(5, 10),
     memory_request |-> 1000,
     memory_limit |-> 1000,
     ephemeral_storage_request |-> 500,
     ephemeral_storage_limit |-> 500,
     node |-> node]

\* Lines 22-30.  Memory and ephemeral storage are in MB.
Resources(node) ==
    [type |-> "Resources",
     cpu_request |-> Num(5, 10),
     cpu_limit |-> Num(5, 10),
     memory_request |-> 1000,
     memory_limit |-> 1000,
     ephemeral_storage_request |-> 500,
     ephemeral_storage_limit |-> 500,
     node |-> node]

\* Mutant: the port number changed and the routing path left as it was.
PortMoved ==
    [type |-> "Port",
     port |-> 8080,
     protocol |-> "TCP",
     expose |-> TRUE,
     app_protocol |-> "http",
     host |-> "ml.tfy-eo.truefoundry.cloud",
     path |-> "/fast-mcp-rishi-ws-8096/"]

\* Lines 32-39.
Port ==
    [type |-> "Port",
     port |-> 8096,
     protocol |-> "TCP",
     expose |-> TRUE,
     app_protocol |-> "http",
     host |-> "ml.tfy-eo.truefoundry.cloud",
     path |-> "/fast-mcp-rishi-ws-8096/"]

\* Mutant: another spelling of the name.
NameArgTypo == "fast_mcp"

\* Line 15: name="fast-mcp".
NameArg == "fast-mcp"

\* Mutant: replicas=2.0.
ReplicasArgTwo == Num(2, 1)

\* Line 41: replicas=1.0.
ReplicasArg == Num(1, 1)

\* Lines 14-42.
Service(image, resources, ports) ==
    [type |-> "Service",
     name |-> NameArg,
     image |-> image,
     resources |-> resources,
     ports |-> ports,
     replicas |-> ReplicasArg]

\* Line 45: the arguments of deploy.
WorkspaceArg == "tfy-ea-dev-eo-az:rishi-ws"

\* Mutant: wait=True.
WaitArgTrue == TRUE

WaitArg == FALSE

\* ------------------------------- lines 14-42, in Python's evaluation order

Step(from, to, stk) ==
    /\ pc = from
    /\ pc' = to
    /\ stack' = stk
    /\ UNCHANGED <<rootLevel, rootHandlers, streams, emitted, service, calls,
                   raised, exitExc, remote>>

EvalLocalSource == Step("LocalSource", "DockerFileBuild", Push(stack, LocalSource))

EvalDockerFileBuild == Step("DockerFileBuild", "Build", Push(stack, DockerFileBuild))

EvalBuild ==
    Step("Build", "NodeSelector",
         Push(Pop(stack, 2), Build(stack[Len(stack) - 1], Top(stack))))

EvalNodeSelector == Step("NodeSelector", "Resources", Push(stack, NodeSelector))

EvalResources ==
    Step("Resources", "Port", Push(Pop(stack, 1), Resources(Top(stack))))

EvalPort == Step("Port", "ports", Push(stack, Port))

\* Mutant: the Port entry listed twice.
EvalPortsTwice ==
    /\ pc = "ports"
    /\ pc' = "Service"
    /\ stack' = Push(Pop(stack, 1), <<Top(stack), Top(stack)>>)
    /\ UNCHANGED <<rootLevel, rootHandlers, streams, emitted, service, calls,
                   raised, exitExc, remote>>

\* Line 31-40: the list display [Port(...)].
EvalPorts == Step("ports", "Service", Push(Pop(stack, 1), <<Top(stack)>>))

EvalService ==
    Step("Service", "assign",
         Push(Pop(stack, 3),
              Service(stack[Len(stack) - 2], stack[Len(stack) - 1], Top(stack))))

\* Line 14: service = ...
Assign ==
    /\ pc = "assign"
    /\ service' = Top(stack)
    /\ stack' = Pop(stack, 1)
    /\ pc' = "deploy"
    /\ UNCHANGED <<rootLevel, rootHandlers, streams, emitted, calls, raised,
                   exitExc, remote>>

Construct ==
    \/ EvalLocalSource
    \/ EvalDockerFileBuild
    \/ EvalBuild
    \/ EvalNodeSelector
    \/ EvalResources
    \/ EvalPort
    \/ EvalPorts
    \/ EvalService
    \/ Assign

\* ------------------------------------------------------ line 45: deploy

\* The errors the client raises, one per failure the platform reports.
Errors == {"AuthenticationError", "QuotaExceeded", "ValidationError", "BuildFailed"}

RolloutClosed == {"running", "rollout_failed"}

\* Mutant: the deploy line duplicated.
DeployCallTwice ==
    /\ pc = "deploy"
    /\ calls' = calls \o
                << [descriptor |-> service, workspace_fqn |-> WorkspaceArg,
                    wait |-> WaitArg],
                   [descriptor |-> service, workspace_fqn |-> WorkspaceArg,
                    wait |-> WaitArg] >>
    /\ pc' = "in_deploy"
    /\ UNCHANGED <<rootLevel, rootHandlers, streams, emitted, stack, service,
                   raised, exitExc, remote>>

\* Mutant: the descriptor is modified once deploy has been called on it.
DeployCallMutating ==
    /\ pc = "deploy"
    /\ calls' = Append(calls, [descriptor |-> service,
                               workspace_fqn |-> WorkspaceArg,
                               wait |-> WaitArg])
    /\ service' = [service EXCEPT !.replicas = Num(2, 1)]
    /\ pc' = "in_deploy"
    /\ UNCHANGED <<rootLevel, rootHandlers, streams, emitted, stack, raised,
                   exitExc, remote>>

\* service.deploy(workspace_fqn="tfy-ea-dev-eo-az:rishi-ws", wait=False):
\* the method is invoked on the object bound to `service`.
DeployCall ==
    /\ pc = "deploy"
    /\ calls' = Append(calls, [descriptor |-> service,
                               workspace_fqn |-> WorkspaceArg,
                               wait |-> WaitArg])
    /\ pc' = "in_deploy"
    /\ UNCHANGED <<rootLevel, rootHandlers, streams, emitted, stack, service,
                   raised, exitExc, remote>>

\* Inside deploy the client logs through the logging module.
ClientLog(l) ==
    /\ pc = "in_deploy"
    /\ emitted < MaxRecords
    /\ emitted' = emitted + 1
    /\ streams' = Written(Destinations(l), l)
    /\ UNCHANGED <<pc, rootLevel, rootHandlers, stack, service, calls, raised,
                   exitExc, remote>>

\* The client raises: authentication, quota, validation or build failure.
ClientRaise(e) ==
    /\ pc = "in_deploy"
    /\ raised' = e
    /\ pc' = "raising"
    /\ UNCHANGED <<rootLevel, rootHandlers, streams, emitted, stack, service,
                   calls, exitExc, remote>>

\* The control plane accepts the request.
ClientSubmit ==
    /\ pc = "in_deploy"
    /\ remote' = [status |-> "pending",
                  descriptor |-> Top(calls).descriptor,
                  workspace |-> Top(calls).workspace_fqn]
    /\ pc' = "submitted"
    /\ UNCHANGED <<rootLevel, rootHandlers, streams, emitted, stack, service,
                   calls, raised, exitExc>>

\* deploy returns: at once when wait is false, else when the rollout is over.
CanReturn(call) == (~call.wait) \/ remote.status \in RolloutClosed

DeployReturn ==
    /\ pc = "submitted"
    /\ CanReturn(Top(calls))
    /\ pc' = "eof"
    /\ UNCHANGED <<rootLevel, rootHandlers, streams, emitted, stack, service,
                   calls, raised, exitExc, remote>>

\* Line 45 is the last statement: the interpreter exits normally.
Exit ==
    /\ pc = "eof"
    /\ pc' = "done"
    /\ UNCHANGED <<rootLevel, rootHandlers, streams, emitted, stack, service,
                   calls, raised, exitExc, remote>>

\* Mutant: the call wrapped in try/except that raises another error.
UnhandledTranslated ==
    /\ pc = "raising"
    /\ exitExc' = "RuntimeError"
    /\ pc' = "failed"
    /\ UNCHANGED <<rootLevel, rootHandlers, streams, emitted, stack, service,
                   calls, raised, remote>>

\* Line 45 is inside no try statement: an exception raised by deploy
\* reaches the top level and ends the script with that exception.
Unhandled ==
    /\ pc = "raising"
    /\ exitExc' = raised
    /\ pc' = "failed"
    /\ UNCHANGED <<rootLevel, rootHandlers, streams, emitted, stack, service,
                   calls, raised, remote>>

\* ------------------------------------------------------ the control plane

RolloutStart ==
    /\ remote.status = "pending"
    /\ remote' = [remote EXCEPT !.status = "rolling_out"]
    /\ UNCHANGED <<pc, rootLevel, rootHandlers, streams, emitted, stack,
                   service, calls, raised, exitExc>>

RolloutEnd(result) ==
    /\ remote.status = "rolling_out"
    /\ remote' = [remote EXCEPT !.status = result]
    /\ UNCHANGED <<pc, rootLevel, rootHandlers, streams, emitted, stack,
                   service, calls, raised, exitExc>>

\* --------------------------------------------------------------- the system

Script ==
    \/ Import
    \/ BasicConfig
    \/ Construct
    \/ DeployCall
    \/ DeployReturn
    \/ Exit
    \/ Unhandled

Client ==
    \/ \E i \in 1..Len(Levels) : ClientLog(Levels[i])
    \/ \E e \in Errors : ClientRaise(e)
    \/ ClientSubmit

ControlPlane ==
    \/ RolloutStart
    \/ \E r \in RolloutClosed : RolloutEnd(r)

Next == Script \/ Client \/ ControlPlane

Spec == Init /\ [][Next]_vars

\* The interpreter and the client keep running; nothing obliges the control
\* plane to make progress.
FairSpec == Spec /\ WF_vars(Script) /\ WF_vars(Client)

\* ================================================================ properties

Ended == pc \in {"done", "failed"}

Invoked == calls # <<>>

\* ------------------------------------------------------------------- C1
\* C1: deploy is never invoked twice, and in every run that has ended it has
\* been invoked exactly once, with wait = false and the workspace identifier
\* "tfy-ea-dev-eo-az:rishi-ws".
C1_DeployExactlyOnce ==
    /\ Len(calls) <= 1
    /\ Ended =>
        /\ Len(calls) = 1
        /\ calls[1].wait = FALSE
        /\ calls[1].workspace_fqn = "tfy-ea-dev-eo-az:rishi-ws"

C1_Witness == pc = "done" /\ Len(calls) = 1 /\ ~calls[1].wait

\* ------------------------------------------------------------------- C2
\* C2: the descriptor handed to deploy has exactly one port entry: port 8096,
\* protocol TCP, exposed, app protocol http, host
\* ml.tfy-eo.truefoundry.cloud, path /fast-mcp-rishi-ws-8096/; the port is
\* in 1..65535 and the protocol in {TCP, UDP}.
C2_OnePort ==
    \A i \in 1..Len(calls) :
        LET ports == calls[i].descriptor.ports IN
        /\ Len(ports) = 1
        /\ ports[1].port = 8096
        /\ ports[1].protocol = "TCP"
        /\ ports[1].expose = TRUE
        /\ ports[1].app_protocol = "http"
        /\ ports[1].host = "ml.tfy-eo.truefoundry.cloud"
        /\ ports[1].path = "/fast-mcp-rishi-ws-8096/"
        /\ ports[1].port \in 1..65535
        /\ ports[1].protocol \in {"TCP", "UDP"}

C2_Witness ==
    /\ pc = "in_deploy"
    /\ Len(calls[1].descriptor.ports) = 1
    /\ calls[1].descriptor.ports[1].type = "Port"

\* ------------------------------------------------------------------- C3
\* C3: in the descriptor handed to deploy, request <= limit in every resource
\* dimension, and request = limit in each: CPU 0.5, memory 1000 MB,
\* ephemeral storage 500 MB.
C3_RequestWithinLimit ==
    \A i \in 1..Len(calls) :
        LET r == calls[i].descriptor.resources IN
        /\ NumLeq(r.cpu_request, r.cpu_limit)
        /\ r.memory_request <= r.memory_limit
        /\ r.ephemeral_storage_request <= r.ephemeral_storage_limit
        /\ NumEq(r.cpu_request, Num(1, 2))
        /\ NumEq(r.cpu_limit, Num(1, 2))
        /\ r.memory_request = 1000 /\ r.memory_limit = 1000
        /\ r.ephemeral_storage_request = 500
        /\ r.ephemeral_storage_limit = 500

C3_Witness ==
    /\ remote.status = "pending"
    /\ remote.descriptor.resources.type = "Resources"
    /\ remote.descriptor = calls[1].descriptor

\* ------------------------------------------------------------------- C4
\* C4: the descriptor the script constructs, and the one deploy is invoked
\* on, are named "fast-mcp".
C4_Name ==
    /\ service # None => service.name = "fast-mcp"
    /\ \A i \in 1..Len(calls) : calls[i].descriptor.name = "fast-mcp"

C4_Witness ==
    /\ pc = "submitted"
    /\ service.type = "Service"
    /\ calls[1].descriptor.type = "Service"

\* ------------------------------------------------------------------- C5
\* C5: the descriptor deploy is invoked on requests exactly one replica.
C5_OneReplica ==
    \A i \in 1..Len(calls) : NumEq(calls[i].descriptor.replicas, Num(1, 1))

C5_Witness == pc = "eof" /\ Len(calls) = 1 /\ calls[1].descriptor # None

\* ------------------------------------------------------------------- C6
Constructing == stack # <<>> \/ service # None \/ Invoked

\* Log records go to `stream` and nowhere else, at INFO and above, and the
\* configuration is in place whenever construction has begun.
LoggingTo(stream) ==
    /\ Constructing => rootLevel = "INFO" /\ rootHandlers = <<stream>>
    /\ \A s \in DOMAIN streams \ {stream} : streams[s] = <<>>
    /\ \A i \in 1..Len(streams[stream]) :
           LevelNo(streams[stream][i]) >= LevelNo("INFO")

\* C6 as stated: logging is configured at INFO level with standard output as
\* the destination of log records, before the descriptor is constructed and
\* before deploy is invoked.
C6_AsStated == LoggingTo("stdout")

\* C6 as the code has it: logging is configured at INFO level with standard
\* error as the destination of log records (basicConfig is given no stream),
\* before the descriptor is constructed and before deploy is invoked.
C6_LoggingToStderr == LoggingTo("stderr")

C6_Witness ==
    /\ Invoked
    /\ Len(streams.stderr) = 2
    /\ streams.stderr[1] = "INFO"
    /\ emitted = 3

\* ------------------------------------------------------------------- C7
FullyConstructed(d) ==
    /\ d.type = "Service"
    /\ d.name # ""
    /\ d.image.type = "Build"
    /\ d.image.build_source.type = "LocalSource"
    /\ d.image.build_spec.type = "DockerFileBuild"
    /\ d.resources.type = "Resources"
    /\ d.resources.node.type = "NodeSelector"
    /\ Len(d.ports) = 1 /\ d.ports[1].type = "Port"
    /\ d.replicas.den > 0

\* C7: when deploy is invoked the descriptor is fully constructed and the
\* evaluation of its expression is over; the value submitted, and the value
\* the control plane receives, is the value constructed; and once `service`
\* is bound no step changes it, before the call or after.
C7_Sequential ==
    /\ [](Invoked =>
            /\ stack = <<>>
            /\ FullyConstructed(service)
            /\ \A i \in 1..Len(calls) : calls[i].descriptor = service)
    /\ [](remote.status # "none" => remote.descriptor = service)
    /\ [][service # None => service' = service]_vars
    /\ [][Invoked' /\ ~Invoked => pc = "deploy" /\ service # None]_vars

C7_Witness ==
    /\ remote.status = "running"
    /\ pc = "done"
    /\ FullyConstructed(service)
    /\ calls[1].descriptor = service

\* ------------------------------------------------------------------- C8
\* C8: when deploy raises, the script ends failed with that very error: the
\* next step of the script ends it, the error it ends with is the one that
\* was raised, deploy has been invoked once and is not invoked again, and the
\* failed state is reached.
C8_ErrorPropagates ==
    /\ [](raised # NoError =>
            /\ raised \in Errors
            /\ pc \in {"raising", "failed"}
            /\ Len(calls) = 1)
    /\ [](pc = "failed" => exitExc = raised /\ raised # NoError)
    /\ [](exitExc # NoError => pc = "failed")
    /\ [][raised # NoError => raised' = raised /\ calls' = calls]_vars
    /\ (pc = "raising") ~> (pc = "failed")

C8_Witness == pc = "failed" /\ exitExc = "QuotaExceeded" /\ Len(calls) = 1

\* ------------------------------------------------------------------- C9
\* C9: once the control plane has accepted the request the script reaches its
\* end, whether or not the rollout ever completes, fails or stalls; and it
\* never fails after acceptance.
C9_FireAndForget ==
    /\ (remote.status # "none") ~> (pc = "done")
    /\ [](remote.status # "none" => raised = NoError)

C9_Witness == pc = "done" /\ remote.status = "pending"

\* ------------------------------------------------------------------ C10
\* The characters of the workspace identifier of line 45.
WorkspaceChars ==
    <<"t", "f", "y", "-", "e", "a", "-", "d", "e", "v", "-", "e", "o", "-",
      "a", "z", ":", "r", "i", "s", "h", "i", "-", "w", "s">>

RECURSIVE Join(_)
Join(chars) == IF chars = <<>> THEN "" ELSE Head(chars) \o Join(Tail(chars))

\* The text after the first occurrence of sep.
AfterSep(chars, sep) ==
    LET i == CHOOSE k \in 1..Len(chars) :
                 chars[k] = sep /\ \A j \in 1..(k - 1) : chars[j] # sep
    IN SubSeq(chars, i + 1, Len(chars))

Digit(d) == <<"0", "1", "2", "3", "4", "5", "6", "7", "8", "9">>[d + 1]

RECURSIVE Decimal(_)
Decimal(n) == IF n < 10 THEN Digit(n) ELSE Decimal(n \div 10) \o Digit(n % 10)

\* C10: the path of the exposed port is "/" + service name + "-" + the part
\* of the workspace identifier after ":" + "-" + the port number + "/".
C10_PathConsistent ==
    \A i \in 1..Len(calls) :
        LET d == calls[i].descriptor IN
        /\ Join(WorkspaceChars) = calls[i].workspace_fqn
        /\ \A k \in 1..Len(d.ports) :
               d.ports[k].path =
                   "/" \o d.name \o "-" \o Join(AfterSep(WorkspaceChars, ":"))
                       \o "-" \o Decimal(d.ports[k].port) \o "/"

C10_Witness ==
    /\ pc = "raising"
    /\ calls[1].descriptor.ports[1].path = "/fast-mcp-rishi-ws-8096/"
    /\ calls[1].workspace_fqn = "tfy-ea-dev-eo-az:rishi-ws"

====
